---- MODULE Spec2Model ----
(***************************************************************************)
(* Model of the generation / analysis / mutation triangle of the          *)
(* Topology_Project code base:                                             *)
(*   gen.py            build_adjacency_list, remove_cycles_and_get_        *)
(*                     topological_order, unify_types_based_on_adjacency,  *)
(*                     generate_codebase                                   *)
(*   code_analysis.py  modify_codebase, extract_graph                      *)
(*                                                                         *)
(* Node indices are 0-based as in the source; an adjacency list is a       *)
(* function 0..N-1 -> sequence of parent indices.  Python's None is the    *)
(* string None, and a name that is absent is the empty string.             *)
(***************************************************************************)
EXTENDS Integers, Sequences, FiniteSets, TLC

VARIABLES
    pc,                 \* position in the pipeline under study
    num_objects,        \* generate_codebase: num_objects
    topology_mode,      \* generate_codebase: topology_mode
    connectivity,       \* generate_codebase: connectivity, in percent
    adjacency_list,     \* parents-of adjacency, mutated in place by the code
    adjacency_before,   \* the adjacency as it was handed to the last sorter call
    node_list,          \* node_list[i] = (object_name, object_type, input_type, output_type)
    topological_order,  \* the order returned by the last sorter call
    code_str,           \* source text
    nodes,              \* extract_graph: nodes
    edges,              \* extract_graph: adjacency, a sequence of from/to records
    num_changes,        \* modify_codebase: num_changes
    modified_code,      \* modify_codebase: returned source text
    changes_made,       \* modify_codebase: returned count
    key,                \* get_random_transformation_code: key = (input_type, output_type)
    snippet,            \* get_random_transformation_code: the snippet returned
    parameter,          \* the value 'parameter' holds when the snippet runs
    result,             \* what running the snippet leaves in 'result'
    tests_dict,         \* run_llm_tests: tests_dict.get("tests")
    test_results        \* run_llm_tests: the list returned, or the exception raised

vars == <<pc, num_objects, topology_mode, connectivity, adjacency_list,
          adjacency_before, node_list, topological_order, code_str, nodes,
          edges, num_changes, modified_code, changes_made, key,
          snippet, parameter, result, tests_dict, test_results>>

genVars == <<num_objects, topology_mode, connectivity, adjacency_list,
             adjacency_before, node_list, topological_order>>
extractVars == <<nodes, edges>>
mutateVars == <<num_changes, modified_code, changes_made>>
catalogVars == <<key, snippet, parameter, result>>
engineVars == <<tests_dict, test_results>>

\* nothing was asked of the catalog
NoSnippet ==
    /\ key = "None"
    /\ snippet = "None"
    /\ parameter = "None"
    /\ result = "None"

\* nothing was asked of the test engine
NoTests ==
    /\ tests_dict = <<>>
    /\ test_results = "None"

-----------------------------------------------------------------------------
(* Bounds of the model.                                                    *)

\* largest node count explored in chain mode
MaxChainN == 5
\* largest node count explored in branch mode
MaxBranchN == 4
\* largest node count explored in random mode
MaxRandomN == 2
\* node count of the arbitrary adjacencies handed to the sorter and to unification
ArbN == 3
\* total number of parent entries of such an arbitrary adjacency
MaxEdges == 2
\* largest number of test records handed to the test engine
MaxTests == 2
\* largest node count of the branch topologies built without rendering them
TopoBranchN == 5
\* largest node count of the random topologies built without rendering them
TopoRandomN == 3
\* largest number of top-level definitions of a hand-written source text
MaxDefs == 3
\* largest change count num_changes handed to modify_codebase
MaxK == 2

None == "None"

\* gen.py DATA_TYPES.  The code only ever compares tags for equality and draws
\* from the list; the model keeps the first two of the nine tags.
DATA_TYPES == <<"int", "float">>

TypeSet == {DATA_TYPES[i] : i \in 1..Len(DATA_TYPES)}

-----------------------------------------------------------------------------
(* Sequence helpers.                                                       *)

\* TRUE; TLC defers the evaluation of an operator argument until it is used,
\* and Evaluated(x) uses x
Evaluated(x) == x = x

Range(s) == {s[i] : i \in 1..Len(s)}

Repeat(x, k) == [i \in 1..k |-> x]

Occurrences(s, x) == Cardinality({i \in 1..Len(s) : s[i] = x})

\* list.remove(x): drops the first occurrence of x
RemoveFirst(s, x) ==
    LET hits == {i \in 1..Len(s) : s[i] = x}
    IN IF hits = {} THEN s
       ELSE LET k == CHOOSE i \in hits : \A j \in hits : i <= j
            IN SubSeq(s, 1, k - 1) \o SubSeq(s, k + 1, Len(s))

\* all orderings of a finite set, as sequences
RECURSIVE Perms(_)
Perms(S) ==
    IF S = {} THEN {<<>>}
    ELSE UNION {{<<x>> \o p : p \in Perms(S \ {x})} : x \in S}

\* all sequences over S of length exactly k
RECURSIVE SeqsOfLen(_, _)
SeqsOfLen(S, k) ==
    IF k = 0 THEN {<<>>}
    ELSE UNION {{Append(s, x) : x \in S} : s \in SeqsOfLen(S, k - 1)}

Indices(adj) == DOMAIN adj

EmptyAdjacency(n) == [i \in 0..(n - 1) |-> <<>>]

-----------------------------------------------------------------------------
(* gen.py: build_adjacency_list                                            *)

\* a draw that ignores connectivity
CoinOutcomes_Fair(conn) == {TRUE, FALSE}

\* random.random() < connectivity, as the set of outcomes the draw can have
CoinOutcomes(conn) ==
    IF conn <= 0 THEN {FALSE}
    ELSE IF conn >= 100 THEN {TRUE}
    ELSE {TRUE, FALSE}

\* a chain case that appends nothing
ChainAdjacency_Disconnected(n) == EmptyAdjacency(n)

\* for index in range(1, n): adjacency_list[index].append(index - 1)
ChainAdjacency(n) == [i \in 0..(n - 1) |-> IF i >= 1 THEN <<i - 1>> ELSE <<>>]

\* a branch case without its final loop
ConnectAllToFinal_Skipped(parents, index, final_node) == parents

\* the final loop of the branch case: every index not yet a parent of the
\* final node is appended, in increasing order
RECURSIVE ConnectAllToFinal(_, _, _)
ConnectAllToFinal(parents, index, final_node) ==
    IF index >= final_node THEN parents
    ELSE ConnectAllToFinal(
            IF index \in Range(parents) THEN parents ELSE Append(parents, index),
            index + 1, final_node)

\* branch case for n >= 4; pick[i] is the outcome of random.randint(0, i - 1)
BranchAdjacency(n, pick) ==
    LET final_node == n - 1
        a0 == EmptyAdjacency(n)
        a1 == [a0 EXCEPT ![1] = Append(@, 0)]
        a2 == [a1 EXCEPT ![2] = Append(@, 0)]
        a3 == [a2 EXCEPT ![final_node] =
                    IF 1 \in Range(@) THEN @ ELSE Append(@, 1)]
        a4 == [a3 EXCEPT ![final_node] =
                    IF 2 \in Range(@) THEN @ ELSE Append(@, 2)]
        a5 == [i \in 0..(n - 1) |->
                    IF i >= 3 /\ i < n - 1 THEN Append(a4[i], pick[i]) ELSE a4[i]]
    IN [a5 EXCEPT ![final_node] = ConnectAllToFinal(@, 0, final_node)]

\* the parents the double loop of the random case appends to node v
RECURSIVE RandomParents(_, _, _, _)
RandomParents(v, u, position, coin) ==
    IF u < 0 THEN <<>>
    ELSE LET before == RandomParents(v, u - 1, position, coin)
         IN IF u # v /\ position[u] < position[v] /\ coin[<<u, v>>]
            THEN Append(before, u) ELSE before

RandomAdjacency(n, position, coin) ==
    [v \in 0..(n - 1) |-> RandomParents(v, n - 1, position, coin)]

\* every adjacency build_adjacency_list can return for the arguments
build_adjacency_list(number_of_objects, mode, conn) ==
    LET n == number_of_objects
    IN IF mode = "chain" THEN {ChainAdjacency(n)}
       ELSE IF mode = "branch" THEN
            IF n < 4 THEN {ChainAdjacency(n)}
            ELSE {BranchAdjacency(n, pick) :
                    pick \in {f \in [3..(n - 2) -> 0..(n - 1)] :
                                \A i \in 3..(n - 2) : f[i] <= i - 1}}
       ELSE
            LET slots == 0..(n - 1)
                positions == {p \in [slots -> slots] :
                                \A a, b \in slots : a # b => p[a] # p[b]}
                \* random.random() is drawn only when position[u] < position[v]
                coins(p) == [{e \in slots \X slots : p[e[1]] < p[e[2]]}
                                -> CoinOutcomes(conn)]
            IN UNION {{RandomAdjacency(n, p, c) : c \in coins(p)} : p \in positions}

-----------------------------------------------------------------------------
(* gen.py: remove_cycles_and_get_topological_order                         *)

\* children_list[p]: child c once per occurrence of p in adjacency_list[c],
\* children in increasing index order
RECURSIVE ChildrenUpTo(_, _, _)
ChildrenUpTo(adj, parent_index, child_index) ==
    IF child_index < 0 THEN <<>>
    ELSE ChildrenUpTo(adj, parent_index, child_index - 1)
            \o Repeat(child_index, Occurrences(adj[child_index], parent_index))

ChildrenList(adj) ==
    LET n == Cardinality(Indices(adj))
    IN [p \in Indices(adj) |-> ChildrenUpTo(adj, p, n - 1)]

InDegree(adj) == [c \in Indices(adj) |-> Len(adj[c])]

\* a sorter that enqueues a child on every decrement of its in-degree
RECURSIVE ProcessChildren_EnqueueEarly(_, _, _)
ProcessChildren_EnqueueEarly(kids, in_degree, queue) ==
    IF kids = <<>> THEN [in_degree |-> in_degree, queue |-> queue]
    ELSE LET child == Head(kids)
             d == [in_degree EXCEPT ![child] = @ - 1]
         IN ProcessChildren_EnqueueEarly(Tail(kids), d, Append(queue, child))

\* the inner for loop of the queue processing
RECURSIVE ProcessChildren(_, _, _)
ProcessChildren(kids, in_degree, queue) ==
    IF kids = <<>> THEN [in_degree |-> in_degree, queue |-> queue]
    ELSE LET child == Head(kids)
             d == [in_degree EXCEPT ![child] = @ - 1]
         IN ProcessChildren(Tail(kids), d,
                            IF d[child] = 0 THEN Append(queue, child) ELSE queue)

\* while queue: ...
RECURSIVE KahnLoop(_, _, _, _)
KahnLoop(queue, order, in_degree, children_list) ==
    IF queue = <<>> THEN order
    ELSE LET node_index == Head(queue)
             r == ProcessChildren(children_list[node_index], in_degree, Tail(queue))
         IN KahnLoop(r.queue, Append(order, node_index), r.in_degree, children_list)

RECURSIVE InitialQueue(_, _)
InitialQueue(in_degree, index) ==
    IF index < 0 THEN <<>>
    ELSE LET before == InitialQueue(in_degree, index - 1)
         IN IF in_degree[index] = 0 THEN Append(before, index) ELSE before

KahnOrder(adj) ==
    LET n == Cardinality(Indices(adj))
    IN KahnLoop(InitialQueue(InDegree(adj), n - 1), <<>>, InDegree(adj),
                ChildrenList(adj))

\* remaining = set(range(n)) - set(topological_order)
Remaining(adj) == Indices(adj) \ Range(KahnOrder(adj))

\* a sorter that clears the list of one stuck node per call
ClearStuck_OnePerCall(adj) ==
    [i \in Indices(adj) |->
        IF i \in Remaining(adj) /\ \A j \in Remaining(adj) : i <= j THEN <<>> ELSE adj[i]]

\* a sorter that clears every parent list
ClearStuck_Everything(adj) == [i \in Indices(adj) |-> <<>>]

\* a sorter that appends the stuck nodes without clearing their parents
ClearStuck_Nothing(adj) == adj

\* adjacency_list[stuck_node].clear() for every remaining node
ClearStuck(adj) == [i \in Indices(adj) |-> IF i \in Remaining(adj) THEN <<>> ELSE adj[i]]

\* every (order, adjacency) the call can leave behind: set.pop() hands out the
\* remaining nodes in an order the language does not fix
remove_cycles_and_get_topological_order(adj) ==
    {[topological_order |-> KahnOrder(adj) \o tail, adjacency_list |-> ClearStuck(adj)] :
        tail \in Perms(Remaining(adj))}

-----------------------------------------------------------------------------
(* gen.py: unify_types_based_on_adjacency                                  *)

\* a unification that drops every parent of a node whose parents disagree
PruneParents_DropAll(snapshot, parents, nl, chosen_type) == <<>>

\* a unification that keeps the parents whose output type was not chosen
PruneParents_KeepAll(snapshot, parents, nl, chosen_type) == parents

\* for parent_index in list(parents): if its output_type differs from the
\* chosen type: parents.remove(parent_index)
RECURSIVE PruneParents(_, _, _, _)
PruneParents(snapshot, parents, nl, chosen_type) ==
    IF snapshot = <<>> THEN parents
    ELSE LET parent_index == Head(snapshot)
         IN PruneParents(Tail(snapshot),
                         IF nl[parent_index].output_type # chosen_type
                         THEN RemoveFirst(parents, parent_index) ELSE parents,
                         nl, chosen_type)

\* the (input_type, parents) pairs the body of the loop can settle on for a node
ResolveInput(parents, nl) ==
    LET parent_output_types == [k \in 1..Len(parents) |-> nl[parents[k]].output_type]
        unique_output_types == Range(parent_output_types)
    IN IF Len(parents) = 0
       THEN {[input_type |-> t, parents |-> parents] : t \in TypeSet}
       ELSE IF Cardinality(unique_output_types) = 1
       THEN {[input_type |-> parent_output_types[1], parents |-> parents]}
       ELSE {[input_type |-> t, parents |-> PruneParents(parents, parents, nl, t)] :
                t \in unique_output_types}

\* for node_index in topological_order: ...  (every outcome of the draws)
RECURSIVE UnifyLoop(_, _, _)
UnifyLoop(order, nl, adj) ==
    IF order = <<>> THEN {[node_list |-> nl, adjacency_list |-> adj]}
    ELSE LET node_index == Head(order)
         IN UNION {UNION {UnifyLoop(Tail(order),
                                    [nl EXCEPT ![node_index].input_type = c.input_type,
                                               ![node_index].output_type = output_type],
                                    [adj EXCEPT ![node_index] = c.parents]) :
                            output_type \in TypeSet} :
                    c \in ResolveInput(adj[node_index], nl)}

unify_types_based_on_adjacency(nl, adj) ==
    UNION {UnifyLoop(s.topological_order, nl, s.adjacency_list) :
            s \in remove_cycles_and_get_topological_order(adj)}

-----------------------------------------------------------------------------
(* Source text.  A text is its syntax tree plus whether it carries comments *)
(* (or any layout ast.unparse would not reproduce).  A tree node is         *)
(*   class   name = class name,   body = statements of the class            *)
(*   def     name = function name, body = statements of the function        *)
(*   assign  v = the single Name target, body = <<right-hand side>>         *)
(*   call    name = the bare callee name, body = argument expressions       *)
(*   attr    v.name(...): v = receiver Name, name = attribute, body = args  *)
(*   other   any other statement or expression, body = its children         *)

Tree(t, name, v, body) == [t |-> t, name |-> name, v |-> v, body |-> body]

ClassDef(name, body) == Tree("class", name, "", body)
FunctionDef(name, body) == Tree("def", name, "", body)
Assign(target, value) == Tree("assign", "", target, <<value>>)
Call(callee, args) == Tree("call", callee, "", args)
AttrCall(receiver, attr, args) == Tree("attr", attr, receiver, args)
Other(what, children) == Tree("other", what, "", children)

\* a line indented where no block is open, as in the texts of
\* tests/test_code_analysis.py: ast.parse raises IndentationError on it
UnexpectedIndent == Tree("indent", "", "", <<>>)

\* a parser that accepts every text
ParseRaises_Never(text) == FALSE

\* ast.parse(text) raises SyntaxError
ParseRaises(text) == \E i \in 1..Len(text.ast) : text.ast[i] = UnexpectedIndent

\* ast.parse of a text it accepts
Parse(text) == text.ast

\* ast.unparse: comments and the original layout are not reproduced
Unparse(tree) == [ast |-> tree, comments |-> FALSE]

-----------------------------------------------------------------------------
(* code_analysis.py: extract_graph                                         *)

\* GraphBuilder.__init__
NewBuilder ==
    [node_types    |-> <<>>,     \* name -> kind, in insertion order
     edges         |-> <<>>,     \* (parent, child) pairs, each with the rule of visit_Call that made it
     instance_maps |-> {},       \* container -> {var -> class}, as triples
     current       |-> None,
     class_stack   |-> <<>>,
     observed      |-> {}]       \* the (current, class_stack) pairs the traversal went through

\* name in self.node_types
Known(node_types, name) == \E i \in 1..Len(node_types) : node_types[i].name = name

\* self.node_types.get(name)
KindOf(node_types, name) ==
    IF Known(node_types, name)
    THEN LET i == CHOOSE j \in 1..Len(node_types) : node_types[j].name = name
         IN node_types[i].kind
    ELSE None

\* self.node_types[name] = kind: a dict keeps the position of an existing key
PutKind(node_types, name, kind) ==
    IF Known(node_types, name)
    THEN [i \in 1..Len(node_types) |->
            IF node_types[i].name = name THEN [name |-> name, kind |-> kind]
            ELSE node_types[i]]
    ELSE Append(node_types, [name |-> name, kind |-> kind])

\* self.instance_maps[container] = {}
ResetMap(maps, container) == {m \in maps : m.container # container}

\* self.instance_maps[container][inst] = cls
BindInstance(maps, container, inst, cls) ==
    {m \in maps : ~(m.container = container /\ m.inst = inst)}
        \cup {[container |-> container, inst |-> inst, cls |-> cls]}

\* self.instance_maps[container].get(inst)
LookupInstance(maps, container, inst) ==
    IF \E m \in maps : m.container = container /\ m.inst = inst
    THEN (CHOOSE m \in maps : m.container = container /\ m.inst = inst).cls
    ELSE None

\* the pair (self.current, self.class_stack) at a point of the traversal
Observe(st) ==
    [st EXCEPT !.observed =
        @ \cup {[current |-> st.current, class_stack |-> st.class_stack]}]

\* a stack read at its bottom
Top_Outermost(stack) == stack[1]

\* self.class_stack[-1]
Top(stack) == stack[Len(stack)]

\* a visit_ClassDef that leaves its name on the stack
Pop_Nothing(stack) == stack

\* self.class_stack.pop()
Pop(stack) == SubSeq(stack, 1, Len(stack) - 1)

\* GraphBuilder.visit_Assign, before its generic_visit
AssignEffect(node, st) ==
    IF /\ st.current # None
       /\ node.v # ""
       /\ Len(node.body) = 1
       /\ node.body[1].t = "call"
       /\ KindOf(st.node_types, node.body[1].name) = "class"
    THEN [st EXCEPT !.instance_maps =
                BindInstance(@, st.current, node.v, node.body[1].name)]
    ELSE st

\* an extractor that records a bare call as (caller, callee)
BareCallEffect_Reversed(node, st) ==
    LET callee == IF node.name = "run" /\ st.class_stack # <<>>
                  THEN Top(st.class_stack) ELSE node.name
        rule == IF callee = node.name THEN "name" ELSE "bare_run"
    IN IF Known(st.node_types, callee)
       THEN [st EXCEPT !.edges = Append(@, <<st.current, callee, rule>>)]
       ELSE st

\* GraphBuilder.visit_Call, bare identifier case, before its generic_visit
BareCallEffect(node, st) ==
    LET callee == IF node.name = "run" /\ st.class_stack # <<>>
                  THEN Top(st.class_stack) ELSE node.name
        rule == IF callee = node.name THEN "name" ELSE "bare_run"
    IN IF Known(st.node_types, callee)
       THEN [st EXCEPT !.edges = Append(@, <<callee, st.current, rule>>)]
       ELSE st

\* an extractor that resolves the receiver of every attribute call
AttrCallEffect_AnyAttribute(node, st) ==
    LET resolved == IF node.v # ""
                    THEN LookupInstance(st.instance_maps, st.current, node.v)
                    ELSE None
        parent_cls == IF resolved = None /\ st.class_stack # <<>>
                      THEN Top(st.class_stack) ELSE resolved
        rule == IF resolved = None THEN "fallback" ELSE "instance"
    IN IF parent_cls # None /\ Known(st.node_types, parent_cls)
       THEN [st EXCEPT !.edges = Append(@, <<parent_cls, st.current, rule>>)]
       ELSE st

\* GraphBuilder.visit_Call, attribute case, before its generic_visit
AttrCallEffect(node, st) ==
    IF node.name # "run" THEN st
    ELSE LET resolved == IF node.v # ""
                         THEN LookupInstance(st.instance_maps, st.current, node.v)
                         ELSE None
             parent_cls == IF resolved = None /\ st.class_stack # <<>>
                           THEN Top(st.class_stack) ELSE resolved
             rule == IF resolved = None THEN "fallback" ELSE "instance"
         IN IF parent_cls # None /\ Known(st.node_types, parent_cls)
            THEN [st EXCEPT !.edges = Append(@, <<parent_cls, st.current, rule>>)]
            ELSE st

RECURSIVE Visit(_, _), VisitRange(_, _, _, _)

\* NodeVisitor.generic_visit: the children in source order
GenericVisit(children, st) == VisitRange(children, 1, Len(children), st)

\* children[lo..hi] visited from left to right, the state threaded through;
\* the range is halved, and the incoming state evaluated first, so that a long
\* body does not nest the evaluation deeply
VisitRange(children, lo, hi, st) ==
    IF ~Evaluated(st) \/ lo > hi THEN st
    ELSE IF lo = hi THEN Visit(children[lo], st)
    ELSE LET mid == (lo + hi) \div 2
         IN VisitRange(children, mid + 1, hi, VisitRange(children, lo, mid, st))

\* NodeVisitor.visit with the four visit_ methods of GraphBuilder
Visit(node, before) ==
    LET st == Observe(before) IN
    IF node.t = "class" THEN
        LET entered == [st EXCEPT !.node_types = PutKind(@, node.name, "class"),
                                  !.class_stack = Append(@, node.name),
                                  !.current = node.name,
                                  !.instance_maps = ResetMap(@, node.name)]
            left == GenericVisit(node.body, entered)
        IN Observe([left EXCEPT !.current = st.current, !.class_stack = Pop(@)])
    ELSE IF node.t = "def" THEN
        IF st.class_stack # <<>> THEN GenericVisit(node.body, st)
        ELSE LET entered == [st EXCEPT !.node_types = PutKind(@, node.name, "function"),
                                       !.current = node.name,
                                       !.instance_maps = ResetMap(@, node.name)]
                 left == GenericVisit(node.body, entered)
             IN Observe([left EXCEPT !.current = st.current])
    ELSE IF node.t = "assign" THEN
        GenericVisit(node.body, AssignEffect(node, st))
    ELSE IF node.t = "call" THEN
        IF st.current = None THEN GenericVisit(node.body, st)
        ELSE GenericVisit(node.body, BareCallEffect(node, st))
    ELSE IF node.t = "attr" THEN
        IF st.current = None THEN GenericVisit(node.body, st)
        ELSE GenericVisit(node.body, AttrCallEffect(node, st))
    ELSE GenericVisit(node.body, st)

\* builder = GraphBuilder(); builder.visit(tree)
Builder(text) == Observe(GenericVisit(Parse(text), NewBuilder))

extract_graph(text) ==
    LET builder == Builder(text)
    IN [nodes |-> [i \in 1..Len(builder.node_types) |-> builder.node_types[i].name],
        adjacency |-> [i \in 1..Len(builder.edges) |->
                        [from |-> builder.edges[i][1], to |-> builder.edges[i][2]]]]

-----------------------------------------------------------------------------
(* code_analysis.py: modify_codebase                                       *)

\* a collector that sets aside the driver name only
Reserved_MainOnly == {"main"}

\* the names FunctionCollector.visit_FunctionDef never collects
Reserved == {"main", "run"}

\* FunctionCollector.visit(node), entered with self.in_class = in_class: the
\* names it adds to candidate_names.  in_class is back at its value when a
\* visit_ClassDef returns, so each subtree is visited with the count of the
\* classes around it.
RECURSIVE Collect(_, _)
Collect(node, in_class) ==
    LET inner == IF node.t = "class" THEN in_class + 1 ELSE in_class
        below == UNION {Collect(node.body[i], inner) : i \in 1..Len(node.body)}
    IN IF node.t = "def" /\ in_class = 0 /\ node.name \notin Reserved
       THEN {node.name} \cup below
       ELSE below

\* candidate_names after FunctionCollector().visit(tree)
candidate_names(tree) == UNION {Collect(tree[i], 0) : i \in 1..Len(tree)}

\* a rewriter that may draw the old target again
Choices_WithOld(pool, old) == pool

\* choices = [n for n in self.pool if n != old]
Choices(pool, old) == pool \ {old}

\* CallRewriter.visit(node) and its generic_visit over a list of children,
\* entered with self.made = made: every outcome of the random.choice draws, as
\* the rewritten tree and the value self.made ends with
RECURSIVE RewriteNode(_, _, _, _), RewriteChildren(_, _, _, _)
RewriteChildren(children, made, pool, limit) ==
    IF children = <<>> THEN {[tree |-> <<>>, made |-> made]}
    ELSE UNION {{[tree |-> <<h.tree>> \o r.tree, made |-> r.made] :
                    r \in RewriteChildren(Tail(children), h.made, pool, limit)} :
                 h \in RewriteNode(Head(children), made, pool, limit)}

\* a rewriter that replaces the target of any bare-name call
RewriteNode_AnyCall(node, made, pool, limit) ==
    LET visited == IF /\ made < limit
                      /\ node.t = "call"
                      /\ Choices(pool, node.name) # {}
                   THEN {[tree |-> [node EXCEPT !.name = n], made |-> made + 1] :
                            n \in Choices(pool, node.name)}
                   ELSE {[tree |-> node, made |-> made]}
    IN UNION {{[tree |-> [v.tree EXCEPT !.body = r.tree], made |-> r.made] :
                    r \in RewriteChildren(v.tree.body, v.made, pool, limit)} :
                 v \in visited}

\* CallRewriter.visit(node): visit_Call for a call, then generic_visit
RewriteNode(node, made, pool, limit) ==
    LET visited == IF /\ made < limit
                      /\ node.t = "call"
                      /\ node.name \in pool
                      /\ Choices(pool, node.name) # {}
                   THEN {[tree |-> [node EXCEPT !.name = n], made |-> made + 1] :
                            n \in Choices(pool, node.name)}
                   ELSE {[tree |-> node, made |-> made]}
    IN UNION {{[tree |-> [v.tree EXCEPT !.body = r.tree], made |-> r.made] :
                    r \in RewriteChildren(v.tree.body, v.made, pool, limit)} :
                 v \in visited}

\* modify_codebase(code_str, num_changes): every (modified_code, changes_made)
\* it can return
modify_codebase(source, limit) ==
    LET tree == Parse(source)
        pool == candidate_names(tree)
    IN IF Cardinality(pool) < 2
       THEN {[modified_code |-> source, changes_made |-> 0]}
       ELSE {[modified_code |-> Unparse(r.tree), changes_made |-> r.made] :
                r \in RewriteChildren(tree, 0, pool, limit)}

-----------------------------------------------------------------------------
(* gen.py: generate_codebase, steps 1 to 4                                 *)

Capitalize(object_type) == IF object_type = "function" THEN "Function" ELSE "Class"

\* step 3 with use_semantics = False
Placeholder(index, chosen_type) ==
    [object_name |-> Capitalize(chosen_type) \o "_" \o ToString(index),
     object_type |-> chosen_type,
     input_type  |-> None,
     output_type |-> None]

\* the configurations generate_codebase is run with; chain and branch ignore
\* connectivity and get the value experiment_runner.py passes for them
Configs ==
    {[mode |-> "chain", n |-> n, conn |-> 100] : n \in 1..MaxChainN}
    \cup {[mode |-> "branch", n |-> n, conn |-> 100] : n \in 1..MaxBranchN}
    \cup {[mode |-> "random", n |-> n, conn |-> c] : n \in 1..MaxRandomN, c \in {0, 60, 100}}

NoCode == [ast |-> <<>>, comments |-> FALSE]

Init ==
    /\ pc = "start"
    /\ num_objects = 0
    /\ topology_mode = None
    /\ connectivity = 0
    /\ adjacency_list = <<>>
    /\ adjacency_before = <<>>
    /\ node_list = <<>>
    /\ topological_order = <<>>
    /\ code_str = NoCode
    /\ nodes = <<>>
    /\ edges = <<>>
    /\ num_changes = 0
    /\ modified_code = NoCode
    /\ changes_made = 0
    /\ NoSnippet
    /\ NoTests

\* step 1
BuildAdjacency ==
    /\ pc = "start"
    /\ \E cfg \in Configs :
        /\ num_objects' = cfg.n
        /\ topology_mode' = cfg.mode
        /\ connectivity' = cfg.conn
        /\ adjacency_list' \in build_adjacency_list(cfg.n, cfg.mode, cfg.conn)
    /\ pc' = "built"
    /\ UNCHANGED <<adjacency_before, node_list, topological_order, code_str>>
    /\ UNCHANGED <<extractVars, mutateVars>>
    /\ UNCHANGED <<catalogVars, engineVars>>

\* step 2
RemoveCycles ==
    /\ pc = "built"
    /\ \E r \in remove_cycles_and_get_topological_order(adjacency_list) :
        /\ adjacency_list' = r.adjacency_list
        /\ topological_order' = r.topological_order
    /\ adjacency_before' = adjacency_list
    /\ pc' = "acyclic"
    /\ UNCHANGED <<num_objects, topology_mode, connectivity, node_list, code_str>>
    /\ UNCHANGED <<extractVars, mutateVars>>
    /\ UNCHANGED <<catalogVars, engineVars>>

\* step 3
CreateNodes ==
    /\ pc = "acyclic"
    /\ \E chosen \in [0..(num_objects - 1) -> {"function", "class"}] :
        node_list' = [index \in 0..(num_objects - 1) |-> Placeholder(index, chosen[index])]
    /\ pc' = "placeholders"
    /\ UNCHANGED <<num_objects, topology_mode, connectivity, adjacency_list,
                   adjacency_before, topological_order, code_str>>
    /\ UNCHANGED <<extractVars, mutateVars>>
    /\ UNCHANGED <<catalogVars, engineVars>>

\* step 4
Unify ==
    /\ pc = "placeholders"
    /\ \E r \in unify_types_based_on_adjacency(node_list, adjacency_list) :
        /\ node_list' = r.node_list
        /\ adjacency_list' = r.adjacency_list
    /\ adjacency_before' = adjacency_list
    /\ pc' = "unified"
    /\ UNCHANGED <<num_objects, topology_mode, connectivity, topological_order, code_str>>
    /\ UNCHANGED <<extractVars, mutateVars>>
    /\ UNCHANGED <<catalogVars, engineVars>>

(* gen.py: generate_method_body and generate_codebase, step 5.  The random  *)
(* filler (assignments of constants, if/else blocks, for loops over range)  *)
(* is kept as one assignment and one loop; every builtin callee of the      *)
(* generated text (range, print, int, len, ...) is the one name Builtin,    *)
(* which no generated node can carry.                                       *)

Builtin == "builtin"

Filler ==
    <<Assign("filler", Other("constant", <<>>)),
      Other("for", <<Call(Builtin, <<>>), Other("pass", <<>>)>>)>>

\* generate_random_string() for the instance of dependency d: a random
\* lowercase name, which cannot clash with a node name
InstanceVariable(dependency_index) == "inst" \o ToString(dependency_index)

\* get_random_transformation_code, as far as its syntax goes
TransformationCode(input_type, output_type) ==
    Assign("result", Call(Builtin, <<Other("parameter", <<>>)>>))

\* the "Call each dependency" loop of generate_method_body
RECURSIVE DependencyCalls(_, _)
DependencyCalls(dependency_indices, nl) ==
    IF dependency_indices = <<>> THEN <<>>
    ELSE LET dependency_index == Head(dependency_indices)
             dep == nl[dependency_index]
             lines == IF dep.object_type = "function"
                      THEN <<Call(dep.object_name, <<Other("argument", <<>>)>>)>>
                      ELSE <<Assign(InstanceVariable(dependency_index),
                                    Call(dep.object_name, <<>>)),
                             AttrCall(InstanceVariable(dependency_index), "run",
                                      <<Other("argument", <<>>)>>)>>
         IN lines \o DependencyCalls(Tail(dependency_indices), nl)

generate_method_body(input_type, output_type, dependency_indices, nl) ==
    Filler \o DependencyCalls(dependency_indices, nl)
        \o <<TransformationCode(input_type, output_type), Other("return", <<>>)>>

\* one entry of code_sections
CodeSection(index, nl, adj) ==
    LET node == nl[index]
    IN IF node.object_type = "function"
       THEN FunctionDef(node.object_name,
                generate_method_body(node.input_type, node.output_type, adj[index], nl))
       ELSE ClassDef(node.object_name,
                <<FunctionDef("__init__", <<Other("pass", <<>>)>>),
                  FunctionDef("run",
                    generate_method_body(node.input_type, node.output_type, adj[index], nl)),
                  \* the 1 to 3 extra methods have no dependencies; one is kept
                  FunctionDef("method_0",
                    generate_method_body(node.input_type, node.output_type, <<>>, nl))>>)

\* the lines main() gets for one node of the topological order
DriverLines(node_index, nl, adj) ==
    LET node == nl[node_index]
        parents == adj[node_index]
        input == IF parents = <<>>
                 THEN Assign("parameter_value", Other("literal", <<>>))
                 ELSE Assign("parameter_value",
                             Tree("load", "results", ToString(parents[1]), <<>>))
        invoke == IF node.object_type = "function"
                  THEN <<Assign("output_value",
                                Call(node.object_name, <<Other("argument", <<>>)>>))>>
                  ELSE <<Assign("instance_" \o ToString(node_index),
                                Call(node.object_name, <<>>)),
                         Assign("output_value",
                                AttrCall("instance_" \o ToString(node_index), "run",
                                         <<Other("argument", <<>>)>>))>>
    IN <<input>> \o invoke \o <<Tree("store", "results", ToString(node_index), <<>>)>>

\* a driver that walks the order from its end
RECURSIVE DriverBody_Reversed(_, _, _)
DriverBody_Reversed(order, nl, adj) ==
    IF order = <<>> THEN <<>>
    ELSE DriverBody_Reversed(Tail(order), nl, adj) \o DriverLines(Head(order), nl, adj)

RECURSIVE DriverBody(_, _, _)
DriverBody(order, nl, adj) ==
    IF order = <<>> THEN <<>>
    ELSE DriverLines(Head(order), nl, adj) \o DriverBody(Tail(order), nl, adj)

MainFunction(order, nl, adj) ==
    FunctionDef("main",
        <<Other("import", <<>>), Assign("results", Other("dict", <<>>))>>
        \o DriverBody(order, nl, adj)
        \o <<Call(Builtin, <<>>), Other("for", <<Call(Builtin, <<>>)>>)>>)

\* if __name__ == "__main__": main()
EntryPoint == Other("if", <<Call("main", <<>>)>>)

\* complete_code; the generated text always carries comments
CompleteCode(order, nl, adj) ==
    [ast |-> [i \in 1..Cardinality(DOMAIN nl) |-> CodeSection(i - 1, nl, adj)]
                \o <<MainFunction(order, nl, adj), EntryPoint>>,
     comments |-> TRUE]

\* step 5 and the return
Render ==
    /\ pc = "unified"
    /\ \E r \in remove_cycles_and_get_topological_order(adjacency_list) :
        /\ adjacency_list' = r.adjacency_list
        /\ topological_order' = r.topological_order
        /\ code_str' = CompleteCode(r.topological_order, node_list, r.adjacency_list)
    /\ adjacency_before' = adjacency_list
    /\ pc' = "generated"
    /\ UNCHANGED <<num_objects, topology_mode, connectivity, node_list>>
    /\ UNCHANGED <<extractVars, mutateVars>>
    /\ UNCHANGED <<catalogVars, engineVars>>

\* extract_graph(code) on the generated text
Extract ==
    /\ pc = "generated"
    /\ LET g == extract_graph(code_str)
       IN /\ nodes' = g.nodes
          /\ edges' = g.adjacency
    /\ pc' = "extracted"
    /\ UNCHANGED <<genVars, code_str, mutateVars>>
    /\ UNCHANGED <<catalogVars, engineVars>>

Next == BuildAdjacency \/ RemoveCycles \/ CreateNodes \/ Unify \/ Render \/ Extract

Spec == Init /\ [][Next]_vars

-----------------------------------------------------------------------------
(* generate_codebase called with arguments outside the documented ranges.  *)

\* a topology_mode that is none of "chain", "branch", "random", and
\* connectivity values below 0 and above 1 (in hundredths, like Configs)
OtherConfigs ==
    {[mode |-> "star", n |-> n, conn |-> 60] : n \in 1..MaxRandomN}
    \cup {[mode |-> "random", n |-> n, conn |-> c] : n \in 1..MaxRandomN, c \in {-50, 150}}

\* step 1 for such arguments: build_adjacency_list has no check of its own and
\* generate_codebase has none before calling it
BuildAdjacencyOther ==
    /\ pc = "start"
    /\ \E cfg \in OtherConfigs :
        /\ num_objects' = cfg.n
        /\ topology_mode' = cfg.mode
        /\ connectivity' = cfg.conn
        /\ adjacency_list' \in build_adjacency_list(cfg.n, cfg.mode, cfg.conn)
    /\ pc' = "built"
    /\ UNCHANGED <<adjacency_before, node_list, topological_order, code_str>>
    /\ UNCHANGED <<extractVars, mutateVars>>
    /\ UNCHANGED <<catalogVars, engineVars>>

NextOther == BuildAdjacencyOther \/ RemoveCycles \/ CreateNodes \/ Unify \/ Render \/ Extract

SpecOther == Init /\ [][NextOther]_vars

-----------------------------------------------------------------------------
(* Steps 1 and 2 alone, on larger branch and random topologies.            *)

TopoConfigs ==
    {[mode |-> "branch", n |-> n, conn |-> 100] : n \in 1..TopoBranchN}
    \cup {[mode |-> "random", n |-> n, conn |-> c] : n \in 1..TopoRandomN, c \in {0, 30, 60, 100}}

\* step 1
BuildTopology ==
    /\ pc = "start"
    /\ \E cfg \in TopoConfigs :
        /\ num_objects' = cfg.n
        /\ topology_mode' = cfg.mode
        /\ connectivity' = cfg.conn
        /\ adjacency_list' \in build_adjacency_list(cfg.n, cfg.mode, cfg.conn)
    /\ pc' = "built"
    /\ UNCHANGED <<adjacency_before, node_list, topological_order, code_str>>
    /\ UNCHANGED <<extractVars, mutateVars>>
    /\ UNCHANGED <<catalogVars, engineVars>>

NextTopo == BuildTopology \/ RemoveCycles

SpecTopo == Init /\ [][NextTopo]_vars

-----------------------------------------------------------------------------
(* The sorter and the unification pass on an arbitrary adjacency.          *)

\* the parent lists of nodes 0..k-1 over n nodes, with at most budget entries in all
RECURSIVE ArbLists(_, _, _)
ArbLists(n, k, budget) ==
    IF k = 0 THEN {<<>>}
    ELSE UNION {UNION {{Append(rest, l) : l \in SeqsOfLen(0..(n - 1), len)} :
                        rest \in ArbLists(n, k - 1, budget - len)} :
                 len \in 0..budget}

ArbAdjacencies(n) == {[i \in 0..(n - 1) |-> s[i + 1]] : s \in ArbLists(n, n, MaxEdges)}

InitArb ==
    /\ pc = "arb"
    /\ num_objects \in 1..ArbN
    /\ topology_mode = None
    /\ connectivity = 0
    /\ adjacency_list \in ArbAdjacencies(num_objects)
    /\ adjacency_before = adjacency_list
    /\ node_list = [index \in 0..(num_objects - 1) |-> Placeholder(index, "function")]
    /\ topological_order = <<>>
    /\ code_str = NoCode
    /\ nodes = <<>>
    /\ edges = <<>>
    /\ num_changes = 0
    /\ modified_code = NoCode
    /\ changes_made = 0
    /\ NoSnippet
    /\ NoTests

\* remove_cycles_and_get_topological_order(adjacency_list)
SortArb ==
    /\ pc = "arb"
    /\ \E r \in remove_cycles_and_get_topological_order(adjacency_list) :
        /\ adjacency_list' = r.adjacency_list
        /\ topological_order' = r.topological_order
    /\ adjacency_before' = adjacency_list
    /\ pc' = "arb_sorted"
    /\ UNCHANGED <<num_objects, topology_mode, connectivity, node_list, code_str>>
    /\ UNCHANGED <<extractVars, mutateVars>>
    /\ UNCHANGED <<catalogVars, engineVars>>

\* unify_types_based_on_adjacency(node_list, adjacency_list)
UnifyArb ==
    /\ pc = "arb"
    /\ \E r \in unify_types_based_on_adjacency(node_list, adjacency_list) :
        /\ node_list' = r.node_list
        /\ adjacency_list' = r.adjacency_list
    /\ adjacency_before' = adjacency_list
    /\ pc' = "arb_unified"
    /\ UNCHANGED <<num_objects, topology_mode, connectivity, topological_order, code_str>>
    /\ UNCHANGED <<extractVars, mutateVars>>
    /\ UNCHANGED <<catalogVars, engineVars>>

\* a further call of remove_cycles_and_get_topological_order on the adjacency
\* the first call left behind
SortAgain ==
    /\ pc = "arb_sorted"
    /\ \E r \in remove_cycles_and_get_topological_order(adjacency_list) :
        /\ adjacency_list' = r.adjacency_list
        /\ topological_order' = r.topological_order
    /\ adjacency_before' = adjacency_list
    /\ pc' = "arb_sorted_again"
    /\ UNCHANGED <<num_objects, topology_mode, connectivity, node_list, code_str>>
    /\ UNCHANGED <<extractVars, mutateVars>>
    /\ UNCHANGED <<catalogVars, engineVars>>

NextArb == SortArb \/ UnifyArb \/ SortAgain

SpecArb == InitArb /\ [][NextArb]_vars

SpecAll == (Init \/ InitArb) /\ [][Next \/ NextArb]_vars

-----------------------------------------------------------------------------
(* The mutator and the extractor on source text that was not generated.    *)

Pass == Other("pass", <<>>)

\* class A: def run(self): foo()
ClassA == ClassDef("A", <<FunctionDef("run", <<Call("foo", <<>>)>>)>>)

\* def f(): x = A(); x.run()
FunctionF == FunctionDef("f", <<Assign("x", Call("A", <<>>)), AttrCall("x", "run", <<>>)>>)

\* the top-level definitions the source texts are assembled from
Definitions ==
    {FunctionDef("foo", <<Pass>>),                                       \* def foo(): pass
     FunctionDef("bar", <<Call("foo", <<>>)>>),                          \* def bar(): foo()
     FunctionDef("bar", <<Call("foo", <<Call("bar", <<>>)>>)>>),         \* def bar(): foo(bar())
     FunctionDef("foo", <<FunctionDef("g", <<Pass>>), Call("g", <<>>)>>),  \* def foo(): def g(): pass; g()
     ClassA,
     FunctionF,
     FunctionDef("run", <<Pass>>),                                       \* def run(): pass
     FunctionDef("main", <<Call("foo", <<>>), Call("run", <<>>)>>)}      \* def main(): foo(); run()

\* the texts of up to MaxDefs definitions, with and without comments, and the
\* texts of at most one definition behind an unexpected indent
Sources ==
    {[ast |-> s, comments |-> c] :
        s \in UNION {SeqsOfLen(Definitions, n) : n \in 0..MaxDefs}, c \in BOOLEAN}
    \cup {[ast |-> <<UnexpectedIndent>> \o s, comments |-> c] :
            s \in SeqsOfLen(Definitions, 0) \cup SeqsOfLen(Definitions, 1), c \in BOOLEAN}

InitSrc ==
    /\ pc = "source"
    /\ num_objects = 0
    /\ topology_mode = None
    /\ connectivity = 0
    /\ adjacency_list = <<>>
    /\ adjacency_before = <<>>
    /\ node_list = <<>>
    /\ topological_order = <<>>
    /\ code_str \in Sources
    /\ nodes = <<>>
    /\ edges = <<>>
    /\ num_changes = 0
    /\ modified_code = NoCode
    /\ changes_made = 0
    /\ NoSnippet
    /\ NoTests

\* modify_codebase(code_str, num_changes); the exception of its ast.parse
\* reaches the caller and nothing is returned
Mutate ==
    /\ pc = "source"
    /\ \E k \in (-1)..MaxK :
        /\ num_changes' = k
        /\ IF ParseRaises(code_str)
           THEN /\ pc' = "mutate_raised"
                /\ UNCHANGED <<modified_code, changes_made>>
           ELSE /\ \E r \in modify_codebase(code_str, k) :
                    /\ modified_code' = r.modified_code
                    /\ changes_made' = r.changes_made
                /\ pc' = "mutated"
    /\ UNCHANGED <<genVars, code_str, extractVars>>
    /\ UNCHANGED <<catalogVars, engineVars>>

\* extract_graph(code_str); the exception of its ast.parse reaches the caller
\* and nothing is returned
ExtractSource ==
    /\ pc = "source"
    /\ IF ParseRaises(code_str)
       THEN /\ pc' = "extract_raised"
            /\ UNCHANGED <<nodes, edges>>
       ELSE /\ LET g == extract_graph(code_str)
               IN /\ nodes' = g.nodes
                  /\ edges' = g.adjacency
            /\ pc' = "source_extracted"
    /\ UNCHANGED <<genVars, code_str, mutateVars>>
    /\ UNCHANGED <<catalogVars, engineVars>>

NextSrc == Mutate \/ ExtractSource

SpecSrc == InitSrc /\ [][NextSrc]_vars

-----------------------------------------------------------------------------
(* The extractor on source text that exercises its resolution rules.       *)

\* def foo(): pass
FunctionFoo == FunctionDef("foo", <<Pass>>)

\* def bar(): foo()
FunctionBar == FunctionDef("bar", <<Call("foo", <<>>)>>)

\* def foo(): def g(): pass; g()
FunctionWithNested == FunctionDef("foo", <<FunctionDef("g", <<Pass>>), Call("g", <<>>)>>)

\* class B: def m1(self): x = A()
\*          def m2(self): x.run()
ClassB ==
    ClassDef("B", <<FunctionDef("m1", <<Assign("x", Call("A", <<>>))>>),
                   FunctionDef("m2", <<AttrCall("x", "run", <<>>)>>)>>)

\* class C: def m(self): y.run()
ClassC == ClassDef("C", <<FunctionDef("m", <<AttrCall("y", "run", <<>>)>>)>>)

\* class D: def m(self): run()
ClassD == ClassDef("D", <<FunctionDef("m", <<Call("run", <<>>)>>)>>)

\* class O: class I: def m(self): y.run()
ClassO ==
    ClassDef("O", <<ClassDef("I", <<FunctionDef("m", <<AttrCall("y", "run", <<>>)>>)>>)>>)

\* def h(): y.run(); unknown()
FunctionH == FunctionDef("h", <<AttrCall("y", "run", <<>>), Call("unknown", <<>>)>>)

\* def k(): x = A(); x.go()
FunctionK == FunctionDef("k", <<Assign("x", Call("A", <<>>)), AttrCall("x", "go", <<>>)>>)

ExtractorDefinitions ==
    {FunctionFoo, FunctionBar, FunctionWithNested, ClassA, FunctionF,
     ClassB, ClassC, ClassD, ClassO, FunctionH, FunctionK}

\* the texts of up to MaxDefs of these definitions
ExtractorSources ==
    {[ast |-> s, comments |-> FALSE] :
        s \in UNION {SeqsOfLen(ExtractorDefinitions, n) : n \in 0..MaxDefs}}

InitExt ==
    /\ pc = "source"
    /\ num_objects = 0
    /\ topology_mode = None
    /\ connectivity = 0
    /\ adjacency_list = <<>>
    /\ adjacency_before = <<>>
    /\ node_list = <<>>
    /\ topological_order = <<>>
    /\ code_str \in ExtractorSources
    /\ nodes = <<>>
    /\ edges = <<>>
    /\ num_changes = 0
    /\ modified_code = NoCode
    /\ changes_made = 0
    /\ NoSnippet
    /\ NoTests

NextExt == ExtractSource

SpecExt == InitExt /\ [][NextExt]_vars

-----------------------------------------------------------------------------
(* gen.py: the conversion catalog                                          *)

\* DATA_TYPES in full; the generator above draws from its first two
ALL_DATA_TYPES ==
    {"int", "float", "list", "dict", "tuple", "set", "str", "complex", "bool"}

(* A snippet is the text the catalog returns and what that text computes:   *)
(*   template      an expression of the map that yields a value of kind type *)
(*   power         parameter ** 1.5                                        *)
(*   ctor          type(arg), arg one of parameter, [parameter],           *)
(*                 parameter.keys()                                        *)
(*   display       a dict display or dict comprehension                    *)
(*   set_of_dict   a set display whose one element is a dict comprehension *)
(*   none          the constant None                                       *)
Snippet(code, form, type, arg) ==
    [code |-> code, form |-> form, type |-> type, arg |-> arg]

Template(code, type) == Snippet(code, "template", type, "parameter")

\* TRANSFORMATIONS_MAP.get(key), the empty set for a key that is not in it
TRANSFORMATIONS_MAP(s, t) ==
    CASE s = "bool" /\ t = "int" ->
            {Template("result = 1 if parameter else 0", "int"),
             Template("result = int(parameter)", "int")}
      [] s = "bool" /\ t = "float" ->
            {Template("result = 1.0 if parameter else 0.0", "float")}
      [] s = "bool" /\ t = "str" ->
            {Template("result = 'True' if parameter else 'False'", "str")}
      [] s = "bool" /\ t = "bool" ->
            {Template("result = not parameter", "bool")}
      [] s = "int" /\ t = "int" ->
            {Template("result = parameter + random.randint(1, 10)", "int"),
             Template("result = parameter * 2", "int"),
             Template("result = abs(parameter)", "int")}
      [] s = "int" /\ t = "float" ->
            {Template("result = float(parameter) / (random.randint(1, 5))", "float"),
             Template("result = math.sqrt(abs(parameter))", "float")}
      [] s = "int" /\ t = "str" ->
            {Template("result = str(parameter) + '_converted'", "str")}
      [] s = "int" /\ t = "complex" ->
            {Template("result = complex(parameter, parameter + 1)", "complex")}
      [] s = "float" /\ t = "float" ->
            {Template("result = math.sin(parameter)", "float"),
             Snippet("result = parameter ** 1.5", "power", "float", "parameter")}
      [] s = "float" /\ t = "int" ->
            {Template("result = int(round(parameter))", "int")}
      [] s = "float" /\ t = "complex" ->
            {Template("result = complex(parameter, parameter / 2.0)", "complex")}
      [] s = "list" /\ t = "int" ->
            {Template("result = len(parameter)", "int"),
             Template("result = sum(parameter) if all(isinstance(x, (int, float)) for x in parameter) else len(parameter)", "int")}
      [] s = "list" /\ t = "float" ->
            {Template("result = sum(parameter) / len(parameter) if len(parameter) > 0 else 0.0", "float")}
      [] s = "list" /\ t = "list" ->
            {Template("result = parameter[::-1]  # reversed list", "list")}
      [] s = "list" /\ t = "str" ->
            {Template("result = ','.join(str(x) for x in parameter)", "str")}
      [] s = "list" /\ t = "set" ->
            {Template("result = set(parameter)", "set")}
      [] s = "dict" /\ t = "list" ->
            {Template("result = list(parameter.keys())", "list")}
      [] s = "dict" /\ t = "int" ->
            {Template("result = len(parameter)", "int")}
      [] s = "dict" /\ t = "str" ->
            {Template("result = f'DictKeys: {list(parameter.keys())}'", "str")}
      [] s = "tuple" /\ t = "list" ->
            {Template("result = list(parameter)", "list")}
      [] s = "tuple" /\ t = "int" ->
            {Template("result = len(parameter)", "int")}
      [] s = "set" /\ t = "int" ->
            {Template("result = len(parameter)", "int")}
      [] s = "set" /\ t = "str" ->
            {Template("result = ','.join(str(x) for x in sorted(parameter))", "str")}
      [] s = "str" /\ t = "list" ->
            {Template("result = list(parameter)", "list")}
      [] s = "str" /\ t = "int" ->
            {Template("result = len(parameter)", "int")}
      [] s = "str" /\ t = "set" ->
            {Template("result = set(parameter)", "set")}
      [] s = "str" /\ t = "float" ->
            {Template("result = float(len(parameter))", "float")}
      [] s = "str" /\ t = "str" ->
            {Template("result = parameter.upper()", "str")}
      [] s = "complex" /\ t = "float" ->
            {Template("result = abs(parameter)", "float")}
      [] s = "complex" /\ t = "int" ->
            {Template("result = int(abs(parameter))", "int")}
      [] OTHER -> {}

\* f"result = {output_type}(<arg>)"
Coerce(type, arg) ==
    Snippet("result = " \o type \o "(" \o arg \o ")", "ctor", type, arg)

\* get_random_transformation_code(input_type, output_type): every snippet it
\* can return
get_random_transformation_code(s, t) ==
    IF TRANSFORMATIONS_MAP(s, t) # {} THEN TRANSFORMATIONS_MAP(s, t)
    ELSE IF s = "bool" THEN
        IF t = "dict"
        THEN {Snippet("result = {'was_true': parameter}", "display", "dict", "parameter")}
        ELSE {Coerce(t, "[parameter]")}
    ELSE IF s \in {"int", "float", "complex"} THEN {Coerce(t, "parameter")}
    ELSE IF s = "str" THEN
        IF t = "dict"
        THEN {Snippet("result = {parameter: len(parameter)}", "display", "dict", "parameter")}
        ELSE {Coerce(t, "[parameter]")}
    ELSE IF s = "list" THEN
        IF t = "dict"
        THEN {Snippet("result = {{i: v for i, v in enumerate(parameter)}}",
                      "set_of_dict", "set", "parameter")}
        ELSE {Coerce(t, "parameter")}
    ELSE IF s = "dict" THEN
        IF t \in {"list", "tuple", "set"}
        THEN {Coerce(t, "parameter.keys()")}
        ELSE {Snippet("result = str(parameter)  # fallback", "ctor", "str", "parameter")}
    ELSE IF s = "tuple" THEN {Coerce(t, "parameter")}
    ELSE IF s = "set" THEN
        IF t = "dict"
        THEN {Snippet("result = {x: True for x in parameter}", "display", "dict", "parameter")}
        ELSE {Coerce(t, "parameter")}
    ELSE {Snippet("result = None  # fallback default", "none", "NoneType", "parameter")}

\* the values 'parameter' can hold: a value of a kind, and for a number
\* whether it is negative (the literals of generate_random_literal are not;
\* math.sin and int(round(...)) return negative numbers)
Values(kind) ==
    {[kind |-> kind, negative |-> b] :
        b \in IF kind \in {"int", "float"} THEN BOOLEAN ELSE {FALSE}}

Returns(kind) == [raised |-> None, kind |-> kind]
Raises(exception) == [raised |-> exception, kind |-> None]

\* the kind of the argument handed to the constructor
ArgKind(arg, value) ==
    IF arg = "[parameter]" THEN "list"
    ELSE IF arg = "parameter.keys()" THEN "dict_keys"
    ELSE value.kind

\* Python's type(x) for the nine built-in types, x of kind k
Construct(type, k) ==
    IF type \in {"str", "bool"} THEN Returns(type)
    ELSE IF type \in {"list", "tuple", "set"} THEN
        IF k \in {"list", "dict", "dict_keys", "tuple", "set", "str"}
        THEN Returns(type) ELSE Raises("TypeError")
    ELSE IF type = "dict" THEN
        IF k = "dict" THEN Returns(type)
        ELSE IF k \in {"str", "dict_keys"} THEN Raises("ValueError")
        ELSE Raises("TypeError")
    ELSE IF type \in {"int", "float"} THEN
        IF k \in {"int", "float", "bool"} THEN Returns(type)
        ELSE IF k = "str" THEN Raises("ValueError")
        ELSE Raises("TypeError")
    ELSE \* complex
        IF k \in {"int", "float", "complex", "bool"} THEN Returns(type)
        ELSE IF k = "str" THEN Raises("ValueError")
        ELSE Raises("TypeError")

\* exec(snippet) with 'parameter' bound to value: the kind of 'result', or the
\* exception raised
Run(code, value) ==
    IF code.form = "template" THEN Returns(code.type)
    ELSE IF code.form = "power"
        THEN IF value.negative THEN Returns("complex") ELSE Returns("float")
    ELSE IF code.form = "ctor" THEN Construct(code.type, ArgKind(code.arg, value))
    ELSE IF code.form = "display" THEN Returns("dict")
    ELSE IF code.form = "set_of_dict" THEN Raises("TypeError")
    ELSE Returns("NoneType")

InitCatalog ==
    /\ pc = "catalog"
    /\ num_objects = 0
    /\ topology_mode = None
    /\ connectivity = 0
    /\ adjacency_list = <<>>
    /\ adjacency_before = <<>>
    /\ node_list = <<>>
    /\ topological_order = <<>>
    /\ code_str = NoCode
    /\ nodes = <<>>
    /\ edges = <<>>
    /\ num_changes = 0
    /\ modified_code = NoCode
    /\ changes_made = 0
    /\ key \in ALL_DATA_TYPES \X ALL_DATA_TYPES
    /\ parameter \in Values(key[1])
    /\ snippet = None
    /\ result = None
    /\ NoTests

\* the snippet is drawn and executed
Convert ==
    /\ pc = "catalog"
    /\ \E drawn \in get_random_transformation_code(key[1], key[2]) :
        /\ snippet' = drawn
        /\ result' = Run(drawn, parameter)
    /\ pc' = "converted"
    /\ UNCHANGED <<key, parameter>>
    /\ UNCHANGED <<genVars, code_str, extractVars, mutateVars, engineVars>>

NextCatalog == Convert

SpecCatalog == InitCatalog /\ [][NextCatalog]_vars

-----------------------------------------------------------------------------
(* test_engine.py: run_llm_tests                                           *)

\* a Python value of a test record: a string, or the constant True
Str(text) == [type |-> "str", value |-> text]
PyTrue == [type |-> "bool", value |-> "True"]

_ALT_NODE_KEYS == {"name", "target", "id"}
_REQ_KEYS == {"node", "test", "result"}

\* d["node"] = d.pop(alt)
Rename(d, alt) ==
    [k \in (DOMAIN d \ {alt}) \cup {"node"} |-> IF k = "node" THEN d[alt] ELSE d[k]]

\* _repair_keys(d): the loop runs over a set, so with several alternative
\* keys present any of them can be the one renamed
_repair_keys(d) ==
    IF "node" \in DOMAIN d THEN {d}
    ELSE IF _ALT_NODE_KEYS \cap DOMAIN d = {} THEN {d}
    ELSE {Rename(d, alt) : alt \in _ALT_NODE_KEYS \cap DOMAIN d}

\* _normalise_tests(tests_block) for a list of dicts
RECURSIVE _normalise_tests(_)
_normalise_tests(tests_block) ==
    IF tests_block = <<>> THEN {<<>>}
    ELSE {<<d>> \o rest : d \in _repair_keys(Head(tests_block)),
                          rest \in _normalise_tests(Tail(tests_block))}

\* the names bound in the module after exec(compile(code_str, ...))
ModuleNames(code) ==
    {code.ast[i].name : i \in {j \in 1..Len(code.ast) : code.ast[j].t \in {"def", "class"}}}

\* the statements of the test records
CallFoo == Call("foo", <<>>)                       \* foo()
CallBar == Call("bar", <<>>)                       \* bar()
AssertFalse == Other("assert False", <<>>)
RaiseSystemExit == Other("raise SystemExit", <<>>)

\* exec(t["test"], mod.__dict__): the name of the exception it raises, None
\* when it raises nothing.  The functions of EngineSources have the body pass.
StatementOutcome(statement, names) ==
    IF statement = UnexpectedIndent THEN "IndentationError"
    ELSE IF statement.t = "call"
        THEN IF statement.name \in names THEN None ELSE "NameError"
    ELSE IF statement = AssertFalse THEN "AssertionError"
    ELSE IF statement = RaiseSystemExit THEN "SystemExit"
    ELSE None

\* the exceptions 'except Exception' catches: SystemExit derives from
\* BaseException only
IsException(name) == name # "SystemExit"

\* x.lower() for the strings of the test records
Lower(text) ==
    IF text = "Pass" THEN "pass" ELSE IF text = "Fail" THEN "fail" ELSE text

Returned(out) == [raised |-> None, out |-> out]
Propagated(exception) == [raised |-> exception, out |-> <<>>]

\* the for loop of run_llm_tests from tests[i] on, out being the list so far
RECURSIVE RunFrom(_, _, _, _)
RunFrom(tests, i, names, out) ==
    IF i > Len(tests) THEN Returned(out)
    ELSE LET t == tests[i] IN
        IF ~(_REQ_KEYS \subseteq DOMAIN t) THEN RunFrom(tests, i + 1, names, out)
        ELSE IF t["result"].type # "str" THEN Propagated("AttributeError")
        ELSE LET outcome == StatementOutcome(t["test"], names)
                 record == [node |-> t["node"],
                            want_pass |-> Lower(t["result"].value) = "pass",
                            actual_pass |-> outcome = None,
                            predicted_err |-> IF "error" \in DOMAIN t THEN t["error"] ELSE Str(""),
                            actual_err |-> IF outcome = None THEN "" ELSE outcome]
             IN IF outcome # None /\ ~IsException(outcome)
                THEN Propagated(outcome)
                ELSE RunFrom(tests, i + 1, names, Append(out, record))

\* run_llm_tests(code_str, tests_dict): what it returns, or the exception that
\* leaves it
run_llm_tests(code, tests_block) ==
    {IF tests = <<>> THEN Returned(<<>>)
     ELSE IF ParseRaises(code) THEN Propagated("IndentationError")
     ELSE RunFrom(tests, 1, ModuleNames(code), <<>>) :
        tests \in _normalise_tests(tests_block)}

\* the code under test: nothing, def foo(): pass, and the latter indented as
\* in tests/test_test_engine.py
EngineSources ==
    {[ast |-> <<>>, comments |-> FALSE],
     [ast |-> <<FunctionDef("foo", <<Pass>>)>>, comments |-> FALSE],
     [ast |-> <<UnexpectedIndent, FunctionDef("foo", <<Pass>>)>>, comments |-> FALSE]}

TestRecords ==
    {[node |-> Str("foo"), test |-> statement, result |-> Str("pass")] :
        statement \in {CallFoo, CallBar, AssertFalse, RaiseSystemExit, UnexpectedIndent}}
    \cup {[node |-> Str("foo"), test |-> CallBar, result |-> Str("Fail"),
           error |-> Str("NameError")],
          [node |-> Str("foo"), test |-> CallFoo, result |-> PyTrue],
          [node |-> Str("foo"), result |-> Str("pass")],
          [name |-> Str("foo"), test |-> CallFoo, result |-> Str("pass")]}

InitEngine ==
    /\ pc = "tests"
    /\ num_objects = 0
    /\ topology_mode = None
    /\ connectivity = 0
    /\ adjacency_list = <<>>
    /\ adjacency_before = <<>>
    /\ node_list = <<>>
    /\ topological_order = <<>>
    /\ code_str \in EngineSources
    /\ nodes = <<>>
    /\ edges = <<>>
    /\ num_changes = 0
    /\ modified_code = NoCode
    /\ changes_made = 0
    /\ NoSnippet
    /\ tests_dict \in UNION {SeqsOfLen(TestRecords, n) : n \in 0..MaxTests}
    /\ test_results = None

RunTests ==
    /\ pc = "tests"
    /\ test_results' \in run_llm_tests(code_str, tests_dict)
    /\ pc' = "tests_run"
    /\ UNCHANGED tests_dict
    /\ UNCHANGED <<genVars, code_str, extractVars, mutateVars, catalogVars>>

NextEngine == RunTests

SpecEngine == InitEngine /\ [][NextEngine]_vars

-----------------------------------------------------------------------------
(* Vocabulary of the properties.                                           *)

\* the generator's adjacency collapsed from parents-of form to name pairs
GoldPairs ==
    UNION {{<<node_list[adjacency_list[c][k]].object_name, node_list[c].object_name>> :
                k \in 1..Len(adjacency_list[c])} :
            c \in DOMAIN adjacency_list}

ExtractedPairs == {<<edges[i].from, edges[i].to>> : i \in 1..Len(edges)}

\* graph_utils._without_main
WithoutMain(pairs) == {e \in pairs : e[1] # "main" /\ e[2] # "main"}

DeclaredNames == [i \in 1..num_objects |-> node_list[i - 1].object_name]

ChainPairs == {<<node_list[i - 1].object_name, node_list[i].object_name>> :
                i \in 1..(num_objects - 1)}

PositionIn(order, x) == CHOOSE i \in 1..Len(order) : order[i] = x

\* order holds every index of adj exactly once and every parent before its child
IsTopologicalOrder(order, adj) ==
    /\ Len(order) = Cardinality(DOMAIN adj)
    /\ Range(order) = DOMAIN adj
    /\ \A c \in DOMAIN adj : \A k \in 1..Len(adj[c]) :
        PositionIn(order, adj[c][k]) < PositionIn(order, c)

Generated == pc \in {"generated", "extracted"}

-----------------------------------------------------------------------------
(* Properties of the generator and of the round trip.                      *)

\* C1: for every mode and node count, the pairs extract_graph reports between
\* declared nodes (pairs that mention main set aside) are exactly the pairs
\* (name[p], name[c]) with p in adjacency[c] of the returned adjacency.
C1_RoundTrip ==
    pc = "extracted" => WithoutMain(ExtractedPairs) = GoldPairs

\* C2 as stated: chain mode with 5 nodes extracts exactly 5 nodes and exactly
\* the pairs (name[i-1], name[i]), i in 1..4.
C2_ChainFiveExact ==
    (pc = "extracted" /\ topology_mode = "chain" /\ num_objects = 5)
        => /\ Len(nodes) = 5
           /\ ExtractedPairs = ChainPairs

\* C2 amended: chain mode with 5 nodes extracts the 5 declared names followed by
\* the driver main, and the pairs that do not mention main are exactly the
\* pairs (name[i-1], name[i]), i in 1..4.
C2_ChainFiveWithDriver ==
    (pc = "extracted" /\ topology_mode = "chain" /\ num_objects = 5)
        => /\ nodes = DeclaredNames \o <<"main">>
           /\ WithoutMain(ExtractedPairs) = ChainPairs

C2_Witness ==
    /\ pc = "extracted" /\ topology_mode = "chain" /\ num_objects = 5
    /\ node_list[1].object_type = "class" /\ node_list[2].object_type = "function"
    /\ Len(edges) > 4

\* C3: the adjacency generate returns is acyclic: the order generate computes
\* for it holds each of the N indices exactly once, every parent before its child.
C3_AcyclicWithTotalOrder ==
    Generated => IsTopologicalOrder(topological_order, adjacency_list)

C3_Witness ==
    /\ pc = "generated" /\ topology_mode = "branch" /\ num_objects = 4
    /\ Len(adjacency_list[3]) = 2

\* C4: after unification the output type of every surviving parent equals the
\* input type of its child, for generated and for arbitrary adjacencies.
C4_TypesAgreeOnEdges ==
    pc \in {"unified", "generated", "extracted", "arb_unified"}
        => \A c \in DOMAIN adjacency_list : \A k \in 1..Len(adjacency_list[c]) :
            node_list[adjacency_list[c][k]].output_type = node_list[c].input_type

\* unification of an arbitrary adjacency pruned one of two conflicting parents
C4_Witness ==
    /\ pc = "arb_unified"
    /\ \E c \in DOMAIN adjacency_list :
        /\ Len(adjacency_list[c]) = 1
        /\ Len(adjacency_before[c]) = 2

\* C5: on any adjacency the sorter returns every index exactly once, every
\* parent of the adjacency it leaves behind before its child.
C5_SorterTotalOrder ==
    pc = "arb_sorted" => IsTopologicalOrder(topological_order, adjacency_list)

C5_Witness ==
    /\ pc = "arb_sorted"
    /\ Remaining(adjacency_before) # {}
    /\ \E c \in DOMAIN adjacency_list : adjacency_list[c] # <<>>

-----------------------------------------------------------------------------
(* Properties of the mutator and of the extractor on source text.          *)

Min(a, b) == IF a < b THEN a ELSE b

Max(a, b) == IF a > b THEN a ELSE b

\* the targets of the bare-name calls of a tree, in traversal order
RECURSIVE BareCalls(_), BareCallsIn(_)
BareCallsIn(children) ==
    IF children = <<>> THEN <<>>
    ELSE BareCalls(Head(children)) \o BareCallsIn(Tail(children))

BareCalls(node) ==
    (IF node.t = "call" THEN <<node.name>> ELSE <<>>) \o BareCallsIn(node.body)

OldTargets == BareCallsIn(code_str.ast)

NewTargets == BareCallsIn(modified_code.ast)

\* the call sites whose target the mutator replaced
RewrittenSites == {i \in 1..Len(OldTargets) : NewTargets[i] # OldTargets[i]}

\* the candidate pool of the text handed to the mutator
Pool == candidate_names(Parse(code_str))

\* the call sites that qualify for a rewrite
QualifyingSites == {i \in 1..Len(OldTargets) : OldTargets[i] \in Pool}

\* the names of the top-level functions other than run and main
TopLevelEligible ==
    {code_str.ast[i].name :
        i \in {j \in 1..Len(code_str.ast) :
                /\ code_str.ast[j].t = "def"
                /\ code_str.ast[j].name \notin {"run", "main"}}}

Defines(definition) == \E i \in 1..Len(code_str.ast) : code_str.ast[i] = definition

\* C6 as stated: for any k, no rewritten call site targets run, and the
\* returned count is at most k.
C6_CountAtMostK ==
    pc = "mutated"
        => /\ \A i \in RewrittenSites : NewTargets[i] # "run"
           /\ changes_made <= num_changes

\* C6 amended: for any k, no rewritten call site targets run, and the returned
\* count is at most k when k >= 0 and is 0 when k < 0.
C6_CountAtMostKOrZero ==
    pc = "mutated"
        => /\ \A i \in RewrittenSites : NewTargets[i] # "run"
           /\ changes_made <= Max(num_changes, 0)

\* a text that defines a top-level run had as many calls rewritten as requested
C6_Witness ==
    /\ pc = "mutated"
    /\ Defines(FunctionDef("run", <<Pass>>))
    /\ num_changes >= 1
    /\ changes_made = num_changes
    /\ RewrittenSites # {}

\* C7: with a pool of at least two names and k >= 0 the returned count is
\* min(k, number of bare-name calls whose target is in the pool), exactly that
\* many call sites changed their target, and each of them went from a pool
\* member to a different pool member.
C7_ExactCount ==
    (pc = "mutated" /\ Cardinality(Pool) >= 2 /\ num_changes >= 0)
        => /\ changes_made = Min(num_changes, Cardinality(QualifyingSites))
           /\ Cardinality(RewrittenSites) = changes_made
           /\ \A i \in RewrittenSites : OldTargets[i] \in Pool /\ NewTargets[i] \in Pool

\* def foo(): pass; def bar(): foo() with k = 1: one change, foo() is gone
C7_Witness ==
    /\ pc = "mutated"
    /\ code_str.ast = <<FunctionDef("foo", <<Pass>>), FunctionDef("bar", <<Call("foo", <<>>)>>)>>
    /\ num_changes = 1
    /\ changes_made = 1
    /\ NewTargets = <<"bar">>

\* C8: with k = 0 the mutator returns the text it was given and the count 0.
C8_ZeroIsIdentity ==
    (pc = "mutated" /\ num_changes = 0)
        => /\ modified_code = code_str
           /\ changes_made = 0

\* C9: a text with at most one eligible top-level function name comes back
\* unchanged with the count 0 for every k > 0.
C9_NoCandidateNoChange ==
    (pc = "mutated" /\ Cardinality(TopLevelEligible) <= 1 /\ num_changes > 0)
        => /\ modified_code = code_str
           /\ changes_made = 0

\* C10: a text that defines class A with a method run and a function f that
\* binds x = A() and calls x.run() yields the edge (A, f), whichever of the two
\* definitions comes first.
C10_EdgeInEitherOrder ==
    (pc = "source_extracted" /\ Defines(ClassA) /\ Defines(FunctionF))
        => <<"A", "f">> \in ExtractedPairs

-----------------------------------------------------------------------------
(* Properties of the topology generator.                                   *)

\* C12: an adjacency is produced only for a topology mode among chain, branch
\* and random; any other mode ends in an error before step 1 returns.
C12_OnlySupportedModes ==
    pc # "start" => topology_mode \in {"chain", "branch", "random"}

\* C13: an adjacency is produced only for a connectivity within [0, 1]; any
\* other value ends in an error before it is used as an edge probability.
C13_OnlyConnectivityInRange ==
    pc # "start" => connectivity \in 0..100

-----------------------------------------------------------------------------
(* Properties of the extractor on arbitrary source text.                   *)

-----------------------------------------------------------------------------
(* Properties of the sorter's effect on the adjacency.                     *)

\* the pairs (parent, child) of an adjacency
ParentPairs(adj) == UNION {{<<adj[c][k], c>> : k \in 1..Len(adj[c])} : c \in DOMAIN adj}

\* R joined with itself, rounds times over: with rounds at least the number
\* of nodes, the pairs (ancestor, descendant)
RECURSIVE Closure(_, _)
Closure(R, rounds) ==
    IF rounds = 0 THEN R
    ELSE Closure(R \cup {<<g[1][1], g[2][2]>> : g \in {h \in R \X R : h[1][2] = h[2][1]}},
                 rounds - 1)

Descent(adj) == Closure(ParentPairs(adj), Cardinality(DOMAIN adj))

OnCycle(adj) == {a \in DOMAIN adj : <<a, a>> \in Descent(adj)}

\* the nodes whose in-degree never reaches zero: those on a cycle or below one
OnOrBelowCycle(adj) ==
    OnCycle(adj) \cup {c \in DOMAIN adj : \E a \in OnCycle(adj) : <<a, c>> \in Descent(adj)}

\* C16: the sorter leaves an acyclic adjacency as it is; on a cyclic one it
\* empties the parent lists of the nodes on or below a cycle, which are the
\* nodes that never reach in-degree zero, and changes no other list.
C16_SorterFrame ==
    pc = "arb_sorted"
        => /\ OnCycle(adjacency_before) = {} => adjacency_list = adjacency_before
           /\ \A c \in DOMAIN adjacency_list :
                IF c \in OnOrBelowCycle(adjacency_before)
                THEN adjacency_list[c] = <<>>
                ELSE adjacency_list[c] = adjacency_before[c]

\* a node below a cycle, not on it, lost its parents
C16_Witness ==
    /\ pc = "arb_sorted"
    /\ \E c \in DOMAIN adjacency_list :
        /\ c \in OnOrBelowCycle(adjacency_before) \ OnCycle(adjacency_before)
        /\ adjacency_before[c] # <<>>
        /\ adjacency_list[c] = <<>>

-----------------------------------------------------------------------------
(* Properties of the extractor's rules.                                    *)

\* the names of the def and class statements at module top level, in text order
TopLevelNames ==
    LET tops == {i \in 1..Len(code_str.ast) : code_str.ast[i].t \in {"def", "class"}}
        nth(k) == CHOOSE i \in tops : Cardinality({j \in tops : j < i}) = k - 1
    IN [k \in 1..Cardinality(tops) |-> code_str.ast[nth(k)].name]

\* a sequence without the repetitions of its elements
RECURSIVE FirstAppearances(_)
FirstAppearances(s) ==
    IF s = <<>> THEN <<>>
    ELSE LET before == FirstAppearances(SubSeq(s, 1, Len(s) - 1))
         IN IF s[Len(s)] \in Range(before) THEN before ELSE Append(before, s[Len(s)])

\* C11: for every top-level function or class g and every bare-name call f(...)
\* inside it with f a top-level function or class of the same text, the nodes
\* hold f and g and the edges hold {from: f, to: g}.
C11_BareCallEdge ==
    pc = "source_extracted"
        => \A i \in 1..Len(code_str.ast) :
            \A f \in Range(BareCalls(code_str.ast[i])) \cap Range(TopLevelNames) :
                /\ f \in Range(nodes)
                /\ code_str.ast[i].name \in Range(nodes)
                /\ [from |-> f, to |-> code_str.ast[i].name] \in Range(edges)

\* C17: the nodes are exactly the names of the top-level def and class
\* statements, in order of first appearance.
C17_NodesAreTopLevel ==
    pc = "source_extracted" => nodes = FirstAppearances(TopLevelNames)

\* class B with the receiver of m2 renamed to y, which no body binds
ClassB_OtherReceiver ==
    ClassDef("B", <<FunctionDef("m1", <<Assign("x", Call("A", <<>>))>>),
                   FunctionDef("m2", <<AttrCall("y", "run", <<>>)>>)>>)

\* the text with every class B replaced by that class
WithOtherReceiver(text) ==
    [text EXCEPT !.ast = [i \in 1..Len(text.ast) |->
                            IF text.ast[i] = ClassB THEN ClassB_OtherReceiver
                            ELSE text.ast[i]]]

\* C18: the binding x -> A made in method m1 of class B is not used for x.run()
\* in method m2: the edges are those of the text whose m2 calls run on a
\* receiver that is bound nowhere.
C18_BindingStaysInBody ==
    pc = "source_extracted"
        => edges = extract_graph(WithOtherReceiver(code_str)).adjacency

\* the positions of the edges whose child is name
EdgesTo(name) == {i \in 1..Len(edges) : edges[i].to = name}

\* C19: y.run() with y unbound yields the edge (innermost class, current
\* context) inside a class, once per call, and no edge inside a top-level
\* function.
C19_UnboundReceiver ==
    pc = "source_extracted"
        => /\ \A i \in EdgesTo("C") : edges[i].from = "C"
           /\ Cardinality(EdgesTo("C")) = Occurrences(code_str.ast, ClassC)
           /\ \A i \in EdgesTo("I") : edges[i].from = "I"
           /\ Cardinality(EdgesTo("I")) = Occurrences(code_str.ast, ClassO)
           /\ EdgesTo("O") = {}
           /\ EdgesTo("h") = {}

\* the nested class, the function and the class, each with one y.run()
C19_Witness ==
    /\ pc = "source_extracted"
    /\ code_str.ast = <<ClassO, FunctionH, ClassC>>
    /\ edges = <<[from |-> "I", to |-> "I"], [from |-> "C", to |-> "C"]>>

\* the variables some assignment of the tree binds to the result of a bare call
RECURSIVE BoundIn(_), BoundInAll(_)
BoundInAll(children) == UNION {BoundIn(children[i]) : i \in 1..Len(children)}

BoundIn(node) ==
    (IF node.t = "assign" /\ node.v # "" /\ node.body[1].t = "call" THEN {node.v} ELSE {})
        \cup BoundInAll(node.body)

\* node is a call outside the cases that record an edge.  names are the node
\* names, bound the variables bound anywhere in the text and in_class tells
\* whether a class encloses the call.  An attribute call of run resolves its
\* receiver through a binding or, inside a class, to the innermost class;
\* class_rules tells whether a bare run() inside a class counts among the
\* cases as well.
OtherCall(node, names, bound, in_class, class_rules) ==
    \/ /\ node.t = "call"
       /\ node.name \notin names
       /\ ~(class_rules /\ in_class /\ node.name = "run")
    \/ /\ node.t = "attr"
       /\ \/ node.name # "run"
          \/ node.v \notin bound /\ ~in_class

\* the tree with every such call replaced by an expression that calls nothing
RECURSIVE WithoutOtherCalls(_, _, _, _, _)
WithoutOtherCalls(node, names, bound, in_class, class_rules) ==
    LET inside == in_class \/ node.t = "class"
        body == [i \in 1..Len(node.body) |->
                    WithoutOtherCalls(node.body[i], names, bound, inside, class_rules)]
    IN IF OtherCall(node, names, bound, in_class, class_rules)
       THEN Other("expression", body)
       ELSE [node EXCEPT !.body = body]

TextWithoutOtherCalls(text, names, class_rules) ==
    [text EXCEPT !.ast = [i \in 1..Len(text.ast) |->
        WithoutOtherCalls(text.ast[i], names, BoundInAll(text.ast), FALSE, class_rules)]]

\* C20 as stated: only a bare-name call of a node name and an attribute call
\* of run whose receiver resolves to a class record an edge: taking every
\* other call out of the text leaves the edges as they are.
C20_OnlyTwoCases ==
    pc = "source_extracted"
        => edges = extract_graph(TextWithoutOtherCalls(code_str, Range(nodes), FALSE)).adjacency

\* C20 amended: besides those two cases a bare run() inside a class records an
\* edge; taking every other call out of the text leaves the edges as they are.
C20_OnlyTwoCasesAndBareRun ==
    pc = "source_extracted"
        => edges = extract_graph(TextWithoutOtherCalls(code_str, Range(nodes), TRUE)).adjacency

\* x.go() on a bound receiver, y.run() on an unbound one and unknown() in
\* top-level functions: the only edge is the one of the constructor call
C20_Witness ==
    /\ pc = "source_extracted"
    /\ code_str.ast = <<ClassA, FunctionK, FunctionH>>
    /\ edges = <<[from |-> "A", to |-> "k"]>>

-----------------------------------------------------------------------------
(* Further properties of the mutator.                                      *)

\* C21: the candidate pool is exactly the set of names of the module-level
\* functions other than run and main.
C21_PoolIsModuleLevel ==
    pc = "mutated" => Pool = TopLevelEligible

-----------------------------------------------------------------------------
(* Further properties of unification.                                      *)

\* the parents unification finds for node c: those of the adjacency it was
\* given, after the sorter emptied the lists of the nodes on or below a cycle
ParentsBeforeUnify(c) ==
    IF c \in OnOrBelowCycle(adjacency_before) THEN <<>> ELSE adjacency_before[c]

\* the entries of parents whose output type is t, in their order
RECURSIVE MatchingParents(_, _)
MatchingParents(parents, t) ==
    IF parents = <<>> THEN <<>>
    ELSE (IF node_list[Head(parents)].output_type = t THEN <<Head(parents)>> ELSE <<>>)
            \o MatchingParents(Tail(parents), t)

\* C24: after unification the parents of a node are the entries it had whose
\* output type equals the node's input type, in their order, and a node that
\* had a parent keeps one: the input type is the output type of one of its
\* parents, only the entries of another type are removed, none when the parents
\* agree, and no entry is added.
C24_PruneExactly ==
    pc \in {"unified", "arb_unified"}
        => \A c \in DOMAIN adjacency_list :
            /\ adjacency_list[c] = MatchingParents(ParentsBeforeUnify(c), node_list[c].input_type)
            /\ ParentsBeforeUnify(c) # <<>> => adjacency_list[c] # <<>>

\* the final node of a branch of four lost the middle one of its three parents
C24_Witness ==
    /\ pc = "unified" /\ topology_mode = "branch" /\ num_objects = 4
    /\ adjacency_before[3] = <<1, 2, 0>>
    /\ adjacency_list[3] = <<1, 0>>

-----------------------------------------------------------------------------
(* Properties of the emitted driver.                                       *)

\* the statements of main() in the generated text
MainBody == code_str.ast[num_objects + 1].body

\* the positions in main() where node i is invoked
InvocationsOf(i) ==
    {k \in 1..Len(MainBody) :
        /\ MainBody[k].t = "assign" /\ MainBody[k].v = "output_value"
        /\ \/ /\ MainBody[k].body[1].t = "call"
              /\ MainBody[k].body[1].name = node_list[i].object_name
           \/ /\ MainBody[k].body[1].t = "attr"
              /\ MainBody[k].body[1].name = "run"
              /\ MainBody[k].body[1].v = "instance_" \o ToString(i)}

\* the positions where results[i] is written
StoresOf(i) == {k \in 1..Len(MainBody) : MainBody[k].t = "store" /\ MainBody[k].v = ToString(i)}

\* the positions where parameter_value is assigned
Inputs == {k \in 1..Len(MainBody) : MainBody[k].t = "assign" /\ MainBody[k].v = "parameter_value"}

\* the last position of S before k, 0 if there is none
LastBefore(S, k) ==
    IF \E j \in S : j < k
    THEN CHOOSE j \in S : j < k /\ \A l \in S : l < k => l <= j
    ELSE 0

\* C25: main() invokes every node exactly once and then writes results[i]
\* once, before any other node is invoked; a node with parents is invoked on
\* results[first parent], read after that entry was written, and a node
\* without parents on a literal.
C25_DriverOrder ==
    pc = "generated"
        => \A i \in 0..(num_objects - 1) :
            /\ Cardinality(InvocationsOf(i)) = 1
            /\ Cardinality(StoresOf(i)) = 1
            /\ \A k \in InvocationsOf(i) :
                LET input == LastBefore(Inputs, k)
                    AllStores == UNION {StoresOf(j) : j \in 0..(num_objects - 1)}
                IN /\ \A w \in StoresOf(i) : LastBefore(AllStores \cup Inputs, w) = input
                   /\ input # 0
                   /\ IF adjacency_list[i] = <<>>
                      THEN MainBody[input].body[1].t = "other"
                      ELSE /\ MainBody[input].body[1].t = "load"
                           /\ MainBody[input].body[1].v = ToString(adjacency_list[i][1])
                           /\ \E w \in StoresOf(adjacency_list[i][1]) : w < input

\* a class at the sink of a branch of four, invoked on the result of node 1
C25_Witness ==
    /\ pc = "generated" /\ topology_mode = "branch" /\ num_objects = 4
    /\ node_list[3].object_type = "class"
    /\ adjacency_list[3][1] = 1 /\ Len(adjacency_list[3]) >= 2

-----------------------------------------------------------------------------
(* Repeated calls of the sorter.                                           *)

\* C28: a second call of the sorter leaves the adjacency of the first call as
\* it is and returns an order that holds every node once; the call generate
\* makes after unification removes no edge that unification kept.
C28_SorterIdempotent ==
    /\ pc = "arb_sorted_again"
        => /\ adjacency_list = adjacency_before
           /\ Len(topological_order) = num_objects
           /\ Range(topological_order) = DOMAIN adjacency_list
    /\ pc = "generated" => adjacency_list = adjacency_before

\* the second call ran on an adjacency of three nodes that still has a node
\* with two parents
C28_Witness ==
    /\ pc = "arb_sorted_again"
    /\ num_objects = 3
    /\ \E c \in DOMAIN adjacency_list : Len(adjacency_list[c]) = 2

-----------------------------------------------------------------------------
(* Shape of the branch and random topologies.                              *)

C23_RandomForward ==
    topology_mode = "random"
        => /\ pc = "built"
                => /\ OnCycle(adjacency_list) = {}
                   /\ connectivity = 0 => \A v \in DOMAIN adjacency_list : adjacency_list[v] = <<>>
                   /\ connectivity = 100
                        => \A u, v \in DOMAIN adjacency_list :
                            u # v => Occurrences(adjacency_list[v], u)
                                        + Occurrences(adjacency_list[u], v) = 1
           /\ pc = "acyclic"
                => /\ adjacency_list = adjacency_before
                   /\ IsTopologicalOrder(topological_order, adjacency_before)

\* connectivity 1 on three nodes, node 0 last in the shuffle
C23_Witness ==
    /\ pc = "built" /\ topology_mode = "random" /\ num_objects = 3
    /\ connectivity = 100
    /\ adjacency_list[0] = <<1, 2>>

-----------------------------------------------------------------------------
(* The class stack and the current context of the extractor.               *)

\* C30: wherever the traversal has a non-empty class stack the current
\* context is the top of the stack; every edge made by the enclosing-class
\* fallback or by a bare run() inside a class is a self-edge; when the
\* traversal ends the stack is empty and the current context is None.
C30_CurrentIsTopOfStack ==
    pc = "source_extracted"
        => LET builder == Builder(code_str)
           IN /\ \A o \in builder.observed :
                    o.class_stack # <<>>
                        => o.current = o.class_stack[Len(o.class_stack)]
              /\ \A i \in 1..Len(builder.edges) :
                    builder.edges[i][3] \in {"fallback", "bare_run"}
                        => builder.edges[i][1] = builder.edges[i][2]
              /\ builder.class_stack = <<>>
              /\ builder.current = None

\* a class nested in a class, a fallback edge and a bare run() edge
C30_Witness ==
    /\ pc = "source_extracted"
    /\ LET builder == Builder(code_str)
       IN /\ \E o \in builder.observed : Len(o.class_stack) = 2
          /\ \E i \in 1..Len(builder.edges) : builder.edges[i][3] = "fallback"
          /\ \E i \in 1..Len(builder.edges) : builder.edges[i][3] = "bare_run"

-----------------------------------------------------------------------------
(* What the mutator leaves alone.                                          *)

\* the tree new is the tree old up to the targets of bare-name calls that
\* went from one pool name to another
RECURSIVE SameButTargets(_, _)
SameButTargets(old, new) ==
    /\ new.t = old.t
    /\ new.v = old.v
    /\ new.name # old.name
        => old.t = "call" /\ old.name \in Pool /\ new.name \in Pool
    /\ Len(new.body) = Len(old.body)
    /\ \A i \in 1..Len(old.body) : SameButTargets(old.body[i], new.body[i])

\* C29: the mutated text has the definitions, the attribute calls, the calls
\* to names outside the pool and the call sites of the original, in the same
\* places; only targets of bare-name calls to pool names differ, and the
\* extractor returns the same node list for both texts.
C29_OnlyTargetsChange ==
    pc = "mutated"
        => /\ Len(modified_code.ast) = Len(code_str.ast)
           /\ \A i \in 1..Len(code_str.ast) :
                SameButTargets(code_str.ast[i], modified_code.ast[i])
           /\ extract_graph(modified_code).nodes = extract_graph(code_str).nodes

\* a call was rewritten in a text that also holds a class, a call to the
\* class and an attribute call
C29_Witness ==
    /\ pc = "mutated"
    /\ changes_made >= 1
    /\ RewrittenSites # {}
    /\ Defines(ClassA)
    /\ Defines(FunctionF)

-----------------------------------------------------------------------------
(* The conversion catalog.                                                 *)

\* C26: for every ordered pair (s, t) of the nine kinds the snippet the
\* catalog returns, run with 'parameter' holding a value of kind s, raises
\* nothing, leaves a value of kind t in 'result', and is not the
\* 'result = None' default.
C26_EveryPairConverts ==
    pc = "converted"
        => /\ result.raised = None
           /\ result.kind = key[2]
           /\ snippet.form # "none"

-----------------------------------------------------------------------------
(* The test engine.                                                        *)

HasRequiredKeys(t) == {"node", "test", "result"} \subseteq DOMAIN t

\* C27: run_llm_tests returns one result per test record that has the keys
\* node, test and result, in input order, with actual_pass True and
\* actual_err "" when the test statement raises nothing and actual_pass False
\* and actual_err the exception's type name when it raises; the records that
\* lack a required key give no result.
C27_OneResultPerCompleteRecord ==
    pc = "tests_run"
        => LET complete == SelectSeq(tests_dict, HasRequiredKeys)
               out == test_results.out
           IN /\ test_results.raised = None
              /\ Len(out) = Len(complete)
              /\ \A i \in 1..Len(complete) :
                    LET outcome == StatementOutcome(complete[i]["test"],
                                                    ModuleNames(code_str))
                    IN /\ out[i].node = complete[i]["node"]
                       /\ out[i].actual_pass = (outcome = None)
                       /\ out[i].actual_err = IF outcome = None THEN "" ELSE outcome

====
